---- MODULE Spec2Model ----
(***************************************************************************)
(* Model of the subscriber REST service (src/src/index.js) and of the seed *)
(* script (src/src/data.js).                                               *)
(*                                                                         *)
(* The Record Store (MongoDB reached through mongoose) is the variable     *)
(* store: the collection in natural (insertion) order.  Every request is a *)
(* slot of req; a handler runs in the steps its await splits it into: the  *)
(* synchronous part up to the await (GetNames, GetSubscribers, GetById,    *)
(* Post), the outcome of the awaited call (FindExec, FindByIdExec,         *)
(* SaveExec when the database runs it, ClientSideReject when mongoose's    *)
(* cast or validation rejects it before anything is sent, StoreFault when  *)
(* the database cannot be reached), and the continuation after the await   *)
(* (Respond).  An awaited call that the store never answers is a request   *)
(* that stays "awaiting".                                                  *)
(*                                                                         *)
(* The server opens its connection once at start-up (index.js 19-25) and   *)
(* mongoose buffers calls made before it is open: such a call is one that  *)
(* has not run yet, or one that fails (StoreFault) when the buffering      *)
(* times out, so the server's connection needs no variable of its own.     *)
(* The seed script's connection does: the script never opens one itself.   *)
(***************************************************************************)
EXTENDS Integers, Sequences, FiniteSets, TLC

(* ------------------------------ bounds -------------------------------- *)
\* Number of operations a behaviour holds: HTTP requests and invocations of
\* the seed script together.
MaxOps == 3

Req == 1..MaxOps
SeedProc == 1..MaxOps

VARIABLES store, nextId, req, seed

vars == <<store, nextId, req, seed>>

(* --------------------------- JSON body values ------------------------- *)
\* A value of a JSON body field: t is its JavaScript type, s its text.
Absent == [t |-> "undefined", s |-> ""]
Str(s) == [t |-> "string", s |-> s]
Arr == [t |-> "array", s |-> ""]

\* The bodies a client posts, as <<name, subscribedChannel>>.
PostInputs ==
  { <<Str("Ana"), Str("X")>>, <<Str(""), Str("X")>>, <<Str("Ana"), Absent>>,
    <<Arr, Str("X")>> }

\* JavaScript truthiness, as `!name` reads it.
Truthy(v) ==
  CASE v.t = "undefined" -> FALSE
    [] v.t = "string" -> v.s # ""
    [] OTHER -> TRUE

\* The identifier strings a client sends: well-formed ObjectId text (hex k)
\* or text that is no ObjectId.  ObjectId k prints as hex k.
Malformed == [wf |-> FALSE, hex |-> 0]
Hex(k) == [wf |-> TRUE, hex |-> k]
\* Hex(1) is the first _id the store issues; until it is stored it is a
\* well-formed identifier no record has.
IdParams == {Hex(1), Malformed}

(* ------------------------------ schema -------------------------------- *)
\* subscriberSchema declares no unique index on name or subscribedChannel.
UniqueIndexOnNameMutant == TRUE
UniqueIndexOnName == FALSE

\* mongoose's cast of a field declared `type: String`.
CastString(v) ==
  CASE v.t = "undefined" -> [ok |-> TRUE, null |-> TRUE, s |-> ""]
    [] v.t = "string" -> [ok |-> TRUE, null |-> FALSE, s |-> v.s]
    [] OTHER -> [ok |-> FALSE, null |-> TRUE, s |-> ""]

\* `required: true` on a String path: present and of non-zero length.
RequiredOk(c) == c.ok /\ ~c.null /\ c.s # ""

\* Document validation of the schema: both paths cast and required.
SchemaValidMutant(name, chan) == TRUE
SchemaValid(name, chan) ==
  RequiredOk(CastString(name)) /\ RequiredOk(CastString(chan))

\* new Subscriber({name, subscribedChannel}) with a fresh _id.
NewSubscriberMutant(id, name, chan) ==
  [id |-> id, name |-> CastString(chan).s,
   subscribedChannel |-> CastString(name).s]
NewSubscriber(id, name, chan) ==
  [id |-> id, name |-> CastString(name).s,
   subscribedChannel |-> CastString(chan).s]

NoDoc == [id |-> 0, name |-> "", subscribedChannel |-> ""]

\* What res.json writes for a document: _id as its hex text.
ToJSON(d) ==
  [id |-> Hex(d.id), name |-> d.name, subscribedChannel |-> d.subscribedChannel]

(* --------------------------- error messages --------------------------- *)
CastErrorMsg == "Cast to ObjectId failed"
ValidationErrorMsg == "Subscriber validation failed"
DuplicateKeyMsg == "E11000 duplicate key error"
StoreErrorMsg == "store unavailable"

(* ------------------------------ requests ------------------------------ *)
IdleReq ==
  [kind |-> "none", idParam |-> Malformed, name |-> Absent, chan |-> Absent,
   pc |-> "idle", calls |-> 0, doc |-> NoDoc, found |-> <<>>, err |-> "",
   sent |-> <<>>]

\* The seed script's three fixed records.
data ==
  << [name |-> "Jeread Krus", subscribedChannel |-> "CNET"],
     [name |-> "Lucifer", subscribedChannel |-> "Sentex"],
     [name |-> "Alice Doe", subscribedChannel |-> "Tech Talk"] >>

IdleSeed == [pc |-> "idle", conn |-> "none", base |-> 0]

Init ==
  /\ store = <<>>
  /\ nextId = 1
  /\ req = [r \in Req |-> IdleReq]
  /\ seed = [p \in SeedProc |-> IdleSeed]

\* The operations begun so far.
Started ==
  Cardinality({r \in Req : req[r].pc # "idle"})
    + Cardinality({p \in SeedProc : seed[p].pc # "idle"})

\* Requests arrive in slot order: slot r is the r-th request received.
CanReceive(r) ==
  /\ req[r].pc = "idle"
  /\ \A q \in Req : q < r => req[q].pc # "idle"
  /\ Started < MaxOps

(* --------------------------- the Record Store ------------------------- *)
Undefined == "<undefined>"

\* A document as a query with a field selection returns it: _id always, the
\* other paths only when selected (fields = {} selects every path).
Project(d, fields) ==
  [id |-> d.id,
   name |-> IF fields = {} \/ "name" \in fields THEN d.name ELSE Undefined,
   subscribedChannel |->
     IF fields = {} \/ "subscribedChannel" \in fields
     THEN d.subscribedChannel ELSE Undefined]

\* Model.find({}, fields): every document, in the collection's natural order.
Find(s, fields) == [i \in 1..Len(s) |-> Project(s[i], fields)]

\* Model.findById(id): the document with that _id, or null (the empty sequence).
FindById(s, id) ==
  IF \E i \in 1..Len(s) : s[i].id = id
  THEN <<s[CHOOSE i \in 1..Len(s) : s[i].id = id]>>
  ELSE <<>>

\* The write is refused when it clashes with a unique index: the built-in one
\* on _id, and one on name were the schema to declare it.
DuplicateKey(s, d) ==
  \E i \in 1..Len(s) :
    \/ s[i].id = d.id
    \/ UniqueIndexOnName /\ s[i].name = d.name

\* What document.save() of a new document does to the collection.
SaveStoreMutant(s, d) ==
  IF \E i \in 1..Len(s) : s[i].name = d.name
  THEN [s EXCEPT ![CHOOSE i \in 1..Len(s) : s[i].name = d.name] = d]
  ELSE Append(s, d)
SaveStore(s, d) == Append(s, d)

\* The _id a new document gets: an ObjectId no other document has.
FreshId == nextId

(* ----------------------- handlers: up to the await -------------------- *)
\* The selection the names handler passes to find.
NamesProjectionMutant == {"subscribedChannel"}
NamesProjection == {"name"}

\* `!name || !subscribedChannel`
MissingFieldsMutant(name, chan) == ~Truthy(name) /\ ~Truthy(chan)
MissingFields(name, chan) == ~Truthy(name) \/ ~Truthy(chan)

Json(status, shape, message, error, items) ==
  [status |-> status,
   body |-> [shape |-> shape, message |-> message, error |-> error,
             items |-> items]]

\* GET /api/subscribers/names: Subscriber.find({}, 'name') is awaited.
GetNames(r) ==
  /\ CanReceive(r)
  /\ req' = [req EXCEPT ![r] =
       [IdleReq EXCEPT !.kind = "names", !.pc = "awaiting", !.calls = 1]]
  /\ UNCHANGED <<store, nextId, seed>>

\* GET /api/subscribers: Subscriber.find() is awaited.
GetSubscribers(r) ==
  /\ CanReceive(r)
  /\ req' = [req EXCEPT ![r] =
       [IdleReq EXCEPT !.kind = "list", !.pc = "awaiting", !.calls = 1]]
  /\ UNCHANGED <<store, nextId, seed>>

\* GET /api/subscribers/:id: Subscriber.findById(req.params.id) is awaited.
GetById(r) ==
  /\ CanReceive(r)
  /\ \E p \in IdParams :
       req' = [req EXCEPT ![r] =
         [IdleReq EXCEPT !.kind = "byId", !.idParam = p, !.pc = "awaiting",
                         !.calls = 1]]
  /\ UNCHANGED <<store, nextId, seed>>

\* POST /api/subscribers: the presence check answers 400 and returns, or a new
\* document is built (its _id assigned) and save() is awaited.
Post(r) ==
  /\ CanReceive(r)
  /\ \E body \in PostInputs :
       LET name == body[1]
           chan == body[2]
       IN
       IF MissingFields(name, chan)
       THEN /\ req' = [req EXCEPT ![r] =
                 [IdleReq EXCEPT !.kind = "create", !.name = name,
                    !.chan = chan, !.pc = "done",
                    !.sent = <<Json(400, "message",
                        "Name and subscribedChannel are required", "", <<>>)>>]]
            /\ UNCHANGED nextId
       ELSE /\ req' = [req EXCEPT ![r] =
                 [IdleReq EXCEPT !.kind = "create", !.name = name,
                    !.chan = chan, !.pc = "awaiting", !.calls = 1,
                    !.doc = NewSubscriber(FreshId, name, chan)]]
            /\ nextId' = nextId + 1
  /\ UNCHANGED <<store, seed>>

(* --------------------- the awaited call's outcome --------------------- *)
\* Whether mongoose sends the awaited call to the database at all: a query's
\* conditions are cast, a document is validated, before anything is sent.
Sendable(q) ==
  CASE q.kind = "byId" -> q.idParam.wf
    [] q.kind = "create" -> SchemaValid(q.name, q.chan)
    [] OTHER -> TRUE

\* The cast or the validation fails: the awaited promise rejects.
ClientSideReject(r) ==
  /\ req[r].pc = "awaiting"
  /\ ~Sendable(req[r])
  /\ req' = [req EXCEPT ![r].pc = "returned",
                        ![r].err = IF req[r].kind = "byId" THEN CastErrorMsg
                                   ELSE ValidationErrorMsg]
  /\ UNCHANGED <<store, nextId, seed>>

\* The database runs a find and the promise resolves with the documents.
FindExec(r) ==
  /\ req[r].pc = "awaiting"
  /\ req[r].kind \in {"names", "list"}
  /\ req' = [req EXCEPT ![r].pc = "returned",
               ![r].found = Find(store, IF req[r].kind = "names"
                                        THEN NamesProjection ELSE {})]
  /\ UNCHANGED <<store, nextId, seed>>

\* The database runs the findById.
FindByIdExec(r) ==
  /\ req[r].pc = "awaiting"
  /\ req[r].kind = "byId"
  /\ Sendable(req[r])
  /\ req' = [req EXCEPT ![r].pc = "returned",
                        ![r].found = FindById(store, req[r].idParam.hex)]
  /\ UNCHANGED <<store, nextId, seed>>

\* The database runs the insert of save().
SaveExec(r) ==
  /\ req[r].pc = "awaiting"
  /\ req[r].kind = "create"
  /\ Sendable(req[r])
  /\ IF DuplicateKey(store, req[r].doc)
     THEN /\ req' = [req EXCEPT ![r].pc = "returned",
                                ![r].err = DuplicateKeyMsg]
          /\ UNCHANGED store
     ELSE /\ store' = SaveStore(store, req[r].doc)
          /\ req' = [req EXCEPT ![r].pc = "returned"]
  /\ UNCHANGED <<nextId, seed>>

\* The database cannot be reached (no connection within the buffering
\* timeout, a network error): the promise rejects and nothing is written.
StoreFault(r) ==
  /\ req[r].pc = "awaiting"
  /\ Sendable(req[r])
  /\ req' = [req EXCEPT ![r].pc = "returned", ![r].err = StoreErrorMsg]
  /\ UNCHANGED <<store, nextId, seed>>

(* --------------------- handlers: after the await ---------------------- *)
Error500(message, err) == Json(500, "error", message, err, <<>>)

NamesResponse(found, err) ==
  IF err # "" THEN Error500("Error retrieving subscriber names", err)
  ELSE Json(200, "names", "", "", [i \in 1..Len(found) |-> found[i].name])

ListResponse(found, err) ==
  IF err # "" THEN Error500("Error retrieving subscribers", err)
  ELSE Json(200, "docs", "", "", [i \in 1..Len(found) |-> ToJSON(found[i])])

ByIdResponseMutant(found, err) ==
  IF err # "" THEN Error500("Error fetching subscriber details", err)
  ELSE Json(200, "doc", "", "", [i \in 1..Len(found) |-> ToJSON(found[i])])
ByIdResponse(found, err) ==
  IF err # "" THEN Error500("Error fetching subscriber details", err)
  ELSE IF found = <<>> THEN Json(404, "message", "Subscriber not found", "", <<>>)
  ELSE Json(200, "doc", "", "", <<ToJSON(found[1])>>)

CreateResponseMutant(doc, err) ==
  IF err # "" THEN Error500("Error creating subscriber", "")
  ELSE Json(201, "doc", "", "", <<ToJSON(doc)>>)
CreateResponse(doc, err) ==
  IF err # "" THEN Error500("Error creating subscriber", err)
  ELSE Json(201, "doc", "", "", <<ToJSON(doc)>>)

Response(q) ==
  CASE q.kind = "names" -> NamesResponse(q.found, q.err)
    [] q.kind = "list" -> ListResponse(q.found, q.err)
    [] q.kind = "byId" -> ByIdResponse(q.found, q.err)
    [] OTHER -> CreateResponse(q.doc, q.err)

\* The continuation of a handler runs once its own promise has settled.
CanRespondMutant(r) ==
  /\ req[r].pc = "returned"
  /\ \A q \in Req : q < r => req[q].pc \in {"idle", "done"}
CanRespond(r) == req[r].pc = "returned"

\* The code after the await, or the catch block: one res.status(..).json(..).
Respond(r) ==
  /\ CanRespond(r)
  /\ req' = [req EXCEPT ![r].pc = "done",
                        ![r].sent = Append(req[r].sent, Response(req[r]))]
  /\ UNCHANGED <<store, nextId, seed>>

(* ---------------------------- seed script ----------------------------- *)
\* The documents insertMany builds from data, with fresh _ids from base on.
SeedDocs(base) ==
  [i \in 1..Len(data) |->
     NewSubscriber(base + i - 1, Str(data[i].name),
                   Str(data[i].subscribedChannel))]

\* What require('./models/subscribers') leaves the script's connection in:
\* the module defines the model; whether it also opens a connection ("open":
\* being established or established, a handle the process holds) is not in
\* the script, which itself never calls mongoose.connect.
ModelsSubscribers == {"none", "open"}

\* The script's top level: the model is required and
\* Subscriber.insertMany(data) is called; the documents are built and
\* validated, and the insert waits for a connection.
SeedStart(p) ==
  /\ seed[p].pc = "idle"
  /\ \A q \in SeedProc : q < p => seed[q].pc # "idle"
  /\ Started < MaxOps
  /\ \E c \in ModelsSubscribers :
       seed' = [seed EXCEPT ![p].conn = c, ![p].base = FreshId,
                  ![p].pc = IF \A i \in 1..Len(data) :
                                 SchemaValid(Str(data[i].name),
                                             Str(data[i].subscribedChannel))
                            THEN "buffered" ELSE "failed"]
  /\ nextId' = nextId + Len(data)
  /\ UNCHANGED <<store, req>>

\* The connection is there and the database runs the insert: the three
\* documents are appended.
InsertExec(p) ==
  /\ seed[p].pc = "buffered"
  /\ seed[p].conn = "open"
  /\ store' = store \o SeedDocs(seed[p].base)
  /\ seed' = [seed EXCEPT ![p].pc = "inserted"]
  /\ UNCHANGED <<nextId, req>>

\* The insert is rejected: no connection within the buffering timeout, or a
\* store error.
InsertFault(p) ==
  /\ seed[p].pc = "buffered"
  /\ seed' = [seed EXCEPT ![p].pc = "failed"]
  /\ UNCHANGED <<store, nextId, req>>

\* .then(() => console.log(..)) / .catch((error) => console.error(..))
SeedReport(p) ==
  /\ seed[p].pc \in {"inserted", "failed"}
  /\ seed' = [seed EXCEPT ![p].pc = IF seed[p].pc = "inserted"
                                    THEN "reportedOk" ELSE "reportedErr"]
  /\ UNCHANGED <<store, nextId, req>>

\* The script calls neither process.exit nor disconnect: the process ends
\* only when nothing keeps its event loop alive.
CanExit(p) ==
  /\ seed[p].pc \in {"buffered", "reportedOk", "reportedErr"}
  /\ seed[p].conn = "none"

SeedExit(p) ==
  /\ CanExit(p)
  /\ seed' = [seed EXCEPT ![p].pc = "exited"]
  /\ UNCHANGED <<store, nextId, req>>

Next ==
  \/ \E r \in Req : GetNames(r)
  \/ \E r \in Req : GetSubscribers(r)
  \/ \E r \in Req : GetById(r)
  \/ \E r \in Req : Post(r)
  \/ \E r \in Req : ClientSideReject(r)
  \/ \E r \in Req : FindExec(r)
  \/ \E r \in Req : FindByIdExec(r)
  \/ \E r \in Req : SaveExec(r)
  \/ \E r \in Req : StoreFault(r)
  \/ \E r \in Req : Respond(r)
  \/ \E p \in SeedProc : SeedStart(p)
  \/ \E p \in SeedProc : InsertExec(p)
  \/ \E p \in SeedProc : InsertFault(p)
  \/ \E p \in SeedProc : SeedReport(p)
  \/ \E p \in SeedProc : SeedExit(p)

Spec == Init /\ [][Next]_vars

(* ------------------------------ properties ---------------------------- *)
\* A body field that is absent or the empty text.
Empty(v) == v.t = "undefined" \/ (v.t = "string" /\ v.s = "")
\* A body field that is a non-empty text.
Text(v) == v.t = "string" /\ v.s # ""

Done(r) == req[r].pc = "done" /\ Len(req[r].sent) = 1
Status(r) == req[r].sent[1].status
Body(r) == req[r].sent[1].body

\* A create request answered 201.
Created(c) == req[c].kind = "create" /\ Done(c) /\ Status(c) = 201
InStore(id) == \E i \in 1..Len(store) : store[i].id = id

\* C1: once a POST of text values (name, subscribedChannel) has answered 201
\* with an id, a GET by that id whose lookup the store runs afterwards finds
\* the record with the posted name and subscribedChannel (never null), and the
\* handler answers 200 with exactly that record.
C1_CreateThenGet ==
  [][\A c \in Req, g \in Req :
       ( /\ Created(c)
         /\ Text(req[c].name) /\ Text(req[c].chan)
         /\ req[g].kind = "byId"
         /\ req[g].idParam = Body(c).items[1].id )
       =>
       /\ ( /\ req[g].pc = "awaiting" /\ req'[g].pc = "returned"
            /\ req'[g].err # StoreErrorMsg )
          => /\ req'[g].err = ""
             /\ Len(req'[g].found) = 1
             /\ req'[g].found[1].name = req[c].name.s
             /\ req'[g].found[1].subscribedChannel = req[c].chan.s
       /\ ( /\ req[g].pc = "returned" /\ req'[g].pc = "done"
            /\ req[g].err = "" /\ req[g].found # <<>> )
          => req'[g].sent =
               << Json(200, "doc", "", "",
                    << [id |-> req[g].idParam, name |-> req[c].name.s,
                        subscribedChannel |-> req[c].chan.s] >>) >>
    ]_vars

\* C1 witness: a create answered 201, another operation, then a GET by the
\* returned id answered 200 with the posted values.
C1_Witness ==
  \E c \in Req, g \in Req :
    /\ Created(c) /\ c < g /\ Started = MaxOps
    /\ req[g].kind = "byId" /\ Done(g) /\ Status(g) = 200
    /\ req[g].idParam = Body(c).items[1].id
    /\ Body(g).items[1].name = req[c].name.s
    /\ Body(g).items[1].subscribedChannel = req[c].chan.s

\* C2: a POST whose name or subscribedChannel is absent or empty answers 400
\* with 'Name and subscribedChannel are required' in the step that receives
\* it, makes no store call, leaves the store as it is, and nothing more ever
\* happens to the request.
C2_MissingFieldsAnswer400 ==
  [][\A r \in Req :
       /\ ( /\ req[r].pc = "idle" /\ req'[r].kind = "create"
            /\ (Empty(req'[r].name) \/ Empty(req'[r].chan)) )
          => /\ req'[r].pc = "done"
             /\ req'[r].sent =
                  << Json(400, "message",
                       "Name and subscribedChannel are required", "", <<>>) >>
             /\ req'[r].calls = 0
             /\ store' = store
       /\ ( /\ req[r].kind = "create"
            /\ (Empty(req[r].name) \/ Empty(req[r].chan)) )
          => req'[r] = req[r]
    ]_vars

\* C2 witness: with records in the store, a POST without subscribedChannel
\* and a POST with an empty name have both been answered 400.
C2_Witness ==
  /\ Len(store) > 0
  /\ \E r \in Req, q \in Req :
       /\ req[r].kind = "create" /\ req[r].chan.t = "undefined"
       /\ Done(r) /\ Status(r) = 400
       /\ req[q].kind = "create" /\ req[q].name = Str("")
       /\ Done(q) /\ Status(q) = 400

\* C3 as claimed: a GET by an identifier string that was never issued, text
\* that is no well-formed identifier included, is answered 404 and never 500.
C3_NeverIssuedIs404 ==
  \A g \in Req :
    ( /\ req[g].kind = "byId" /\ Done(g)
      /\ (~req[g].idParam.wf \/ req[g].idParam.hex \notin 1..(nextId - 1)) )
    => Status(g) = 404

\* C3 as amended: a GET by a well-formed identifier no stored record has is
\* never answered 200, and is answered 404 'Subscriber not found' whenever
\* the lookup itself did not fail; a GET by text that is no well-formed
\* identifier is answered 500.
C3_WellFormedUnissuedIs404 ==
  \A g \in Req :
    (req[g].kind = "byId" /\ Done(g))
    => /\ ~req[g].idParam.wf
          => Status(g) = 500 /\ Body(g).shape = "error"
       /\ (req[g].idParam.wf /\ ~InStore(req[g].idParam.hex))
          => /\ Status(g) # 200
             /\ req[g].err = ""
                => /\ Status(g) = 404
                   /\ Body(g).message = "Subscriber not found"

\* C3 witness: with records in the store, a GET by a well-formed identifier
\* that no record has was answered 404.
C3_Witness ==
  \E g \in Req :
    /\ req[g].kind = "byId" /\ Done(g) /\ Status(g) = 404
    /\ req[g].idParam.wf /\ ~InStore(req[g].idParam.hex)
    /\ Len(store) > 0

\* C4: a names request the store served is answered 200 with the names of
\* the records the store held when it ran the find (the store only grows, so
\* these are its first records), in order; hence it equals, element by
\* element, the name projection of a list answer taken on the same store
\* state.  On the empty store the answer is 200 with the empty sequence.
C4_NamesAreProjection ==
  \A n \in Req :
    (req[n].kind = "names" /\ Done(n) /\ req[n].err = "")
    => /\ Status(n) = 200 /\ Body(n).shape = "names"
       /\ Len(Body(n).items) <= Len(store)
       /\ Body(n).items = [i \in 1..Len(Body(n).items) |-> store[i].name]
       /\ \A l \in Req :
            ( /\ req[l].kind = "list" /\ Done(l) /\ req[l].err = ""
              /\ Len(Body(l).items) = Len(Body(n).items) )
            => /\ Status(l) = 200
               /\ Body(n).items =
                    [i \in 1..Len(Body(l).items) |-> Body(l).items[i].name]
               /\ \A i \in 1..Len(Body(l).items) :
                    Body(l).items[i] = ToJSON(store[i])

\* C4 witness: a names answer and a list answer of the same non-empty store
\* state.
C4_Witness ==
  \E n \in Req, l \in Req :
    /\ req[n].kind = "names" /\ Done(n) /\ Status(n) = 200
    /\ req[l].kind = "list" /\ Done(l) /\ Status(l) = 200
    /\ Len(Body(n).items) = Len(Body(l).items)
    /\ Len(Body(n).items) > 0

\* C5: no create is ever rejected for a duplicate; a create of text values
\* that the store serves is answered 201; and any two creates answered 201,
\* equal values or not, carry distinct ids and each one's record is in the
\* store, exactly once, with the values posted.
C5_DuplicatesAllowed ==
  /\ \A c \in Req :
       (req[c].kind = "create")
       => /\ req[c].err # DuplicateKeyMsg
          /\ ( /\ Done(c) /\ Text(req[c].name) /\ Text(req[c].chan)
               /\ req[c].err # StoreErrorMsg )
             => Status(c) = 201
          /\ Created(c)
             => /\ Cardinality({i \in 1..Len(store) :
                                  store[i].id = req[c].doc.id}) = 1
                /\ \E i \in 1..Len(store) :
                     ToJSON(store[i]) = Body(c).items[1]
  /\ \A c \in Req, d \in Req :
       (c # d /\ Created(c) /\ Created(d))
       => Body(c).items[1].id # Body(d).items[1].id

\* C5 witness: two creates with the same name and subscribedChannel, both
\* answered 201, both records in the store.
C5_Witness ==
  \E c \in Req, d \in Req :
    /\ c < d /\ Created(c) /\ Created(d)
    /\ req[c].name = req[d].name /\ req[c].chan = req[d].chan
    /\ InStore(req[c].doc.id) /\ InStore(req[d].doc.id)

\* C6: every record in the store has a non-empty name and a non-empty
\* subscribedChannel, and no two records have the same id.
C6_StoreInvariant ==
  /\ \A i \in 1..Len(store) :
       /\ store[i].name \notin {"", Undefined}
       /\ store[i].subscribedChannel \notin {"", Undefined}
  /\ \A i \in 1..Len(store), j \in 1..Len(store) :
       i # j => store[i].id # store[j].id

\* C6 witness: the store holds the seed script's records and a created one,
\* after a create that was refused.
C6_Witness ==
  /\ Len(store) > Len(data)
  /\ \E r \in Req : req[r].kind = "create" /\ Done(r) /\ Status(r) # 201

\* C7: a request has at most one response and has it exactly when its
\* handler is done; it made at most one store call; and the status follows
\* the outcome: 400 for a missing field, 500 with the error's message for
\* any error of the awaited call, 404 for a lookup that found nothing, 200
\* for a read and 201 for a create otherwise.
C7_OneResponsePerOutcome ==
  \A r \in Req :
    /\ Len(req[r].sent) <= 1
    /\ req[r].calls <= 1
    /\ (req[r].pc = "done") <=> (Len(req[r].sent) = 1)
    /\ Done(r)
       => /\ (Status(r) = 400)
             <=> ( /\ req[r].kind = "create"
                   /\ (Empty(req[r].name) \/ Empty(req[r].chan)) )
          /\ Status(r) = 400 => req[r].calls = 0
          /\ (Status(r) = 500) <=> (req[r].err # "")
          /\ Status(r) = 500
             => Body(r).error = req[r].err /\ Body(r).message # ""
          /\ (Status(r) = 404)
             <=> (req[r].kind = "byId" /\ req[r].err = "" /\ req[r].found = <<>>)
          /\ (Status(r) = 201)
             <=> ( /\ req[r].kind = "create" /\ req[r].err = ""
                   /\ req[r].calls = 1 )
          /\ (Status(r) = 200)
             <=> ( /\ req[r].kind \in {"names", "list", "byId"}
                   /\ req[r].err = ""
                   /\ req[r].kind = "byId" => req[r].found # <<>> )
          /\ Status(r) \in {200, 201, 400, 404, 500}

\* C7 witness: requests answered 400, 404 and 500 (a create the store failed).
C7_Witness ==
  \E a \in Req, b \in Req, c \in Req :
    /\ Done(a) /\ Status(a) = 400
    /\ Done(b) /\ Status(b) = 404
    /\ Done(c) /\ Status(c) = 500 /\ req[c].kind = "create"
    /\ Body(c).error = StoreErrorMsg

\* C8 as claimed: a run of the seed script that has reported did so over a
\* connection to the store, and its exit is the step that follows.
C8_SeedRunExits ==
  \A p \in SeedProc :
    seed[p].pc \in {"reportedOk", "reportedErr"}
    => seed[p].conn = "open" /\ ENABLED SeedExit(p)

\* C9: a request whose own awaited call has settled can always take its
\* response step, whatever the other requests are doing, a request stalled
\* on the store included; and a create with a missing field is answered
\* without waiting for anything.
C9_IndependentRequests ==
  \A r \in Req :
    /\ req[r].pc = "returned" => ENABLED Respond(r)
    /\ ( /\ req[r].kind = "create"
         /\ (Empty(req[r].name) \/ Empty(req[r].chan)) )
       => Done(r)

\* C9 witness: the first request is still waiting for the store while two
\* requests received after it have their responses, one of them served by
\* the store.
C9_Witness ==
  \E a \in Req, b \in Req, c \in Req :
    /\ a < b /\ a < c /\ b # c
    /\ req[a].pc = "awaiting"
    /\ Done(b) /\ req[b].calls = 1 /\ req[b].err = ""
    /\ Done(c) /\ req[c].kind = "create" /\ Status(c) = 400

\* C10: every step keeps the records the store holds, with their ids, names
\* and subscribedChannels, in place; a step of a GET request leaves the store
\* unchanged; and a step that changes the store is either a create's save
\* succeeding, which appends exactly that one record, or a seed script's
\* insert.
C10_StoreOnlyGrows ==
  [][/\ Len(store') >= Len(store)
     /\ \A i \in 1..Len(store) : store'[i] = store[i]
     /\ \A r \in Req :
          ( /\ req'[r].kind \in {"names", "list", "byId"}
            /\ req'[r] # req[r] )
          => store' = store
     /\ store' # store
        => \/ \E r \in Req :
                /\ req[r].kind = "create"
                /\ req[r].pc = "awaiting" /\ req'[r].pc = "returned"
                /\ req'[r].err = ""
                /\ store' = Append(store, req[r].doc)
           \/ \E p \in SeedProc :
                /\ seed[p].pc = "buffered" /\ seed'[p].pc = "inserted"
                /\ Len(store') = Len(store) + Len(data)
    ]_vars

\* C10 witness: the store holds the seed records and a created one, and a GET
\* has been answered from it.
C10_Witness ==
  /\ Len(store) > Len(data)
  /\ \E r \in Req :
       /\ req[r].kind \in {"names", "list"} /\ Done(r) /\ Status(r) = 200
       /\ Len(Body(r).items) = Len(store)

====
